---- MODULE Spec2Model ----
(***************************************************************************)
(* Point-in-time architecture (PITA) of django-pita: one table holds every *)
(* physical version of every row group; save() copies the stored row and   *)
(* rewrites the current one in place, delete() marks it replaced,          *)
(* rollback_* revert it and destroy later versions, purge() destroys the   *)
(* group.  Model instances held by callers ("handles") are in-memory       *)
(* copies of a row and may be stale with respect to the table.             *)
(*                                                                         *)
(*   "T" : DummyPITAModel                     (versioned target entity)    *)
(*   "F" : DummyPITAModel7FrozenForeignKey    (versioned referencer)       *)
(*   "R" : DummyRegularModel7FrozenForeignKey (plain referencer)           *)
(*   "O" : DummyPITAModel4OneToOne            (one-to-one field -> T id)   *)
(***************************************************************************)
EXTENDS Integers, FiniteSets, Sequences, TLC

\* ------------------------------------------------------------------ bounds
MaxTime == 3      \* clock readings 1..MaxTime
MaxId == 3        \* primary keys handed out per table
MaxRef == 1       \* referencer row groups formed per referencing table

TicksPerDay == 2  \* instants told apart within one calendar day

\* None / SQL NULL
NULL == 0

\* long-lived instances kept by callers between calls
Handles == {"h1"}
\* a caller that fetches its instance right before the call and drops it after
Fresh == "fresh"
C1Values == {"first", "second"}
Times == 1..MaxTime

VARIABLES
    rows,      \* table "T": set of stored row versions
    frows,     \* table "F": set of stored row versions (frozen -> T id)
    rrows,     \* table "R": set of plain rows (frozen -> T id)
    orows,     \* table "O": set of stored row versions (one_to_one -> T id)
    nextId,    \* next auto-increment primary key, per table
    handles,   \* in-memory "T" instances held by callers
    txn,       \* the transaction in flight, statement by statement
    race,      \* the save() calls of concurrent writers, step by step
    ledger,    \* transaction records and the objects linked to them
    clock      \* timezone.now()

vars == <<rows, frows, rrows, orows, nextId, handles, txn, race, ledger, clock>>

\* ------------------------------------------------------------ rows, fields
\* payload a frozen reference had when it was formed; NoSnap on rows that
\* hold no frozen reference (history only: no operation reads it)
NoSnap == <<>>

\* Model(): a fresh, unsaved instance
Blank ==
    [id |-> NULL, row_id |-> NULL, created_at |-> NULL, replaced_at |-> NULL,
     modified_by |-> NULL, start_at |-> NULL, end_at |-> NULL,
     c1 |-> "", frozen |-> NULL, snap |-> NoSnap, one_to_one |-> NULL]

\* the entity-specific and caller-settable part of a version
Payload(r) == <<r.c1, r.start_at, r.end_at, r.modified_by>>

\* faulty variant of get_one_to_one_fields: no field is recognised
get_one_to_one_fields_None(m) == {}

\* get_one_to_one_fields: "O" declares one OneToOneField, "T" and "F" none
get_one_to_one_fields(m) == IF m = "O" THEN {"one_to_one"} ELSE {}

\* the database seen by one transaction
TheDb == [T |-> rows, F |-> frows, R |-> rrows, O |-> orows, nid |-> nextId]

\* outcome of a call: ok, the database it leaves, the instance it leaves
Ok(db, inst) == [ok |-> TRUE, err |-> "", db |-> db, inst |-> inst]
Fail(e, db, inst) == [ok |-> FALSE, err |-> e, db |-> db, inst |-> inst]

\* ---------------------------------------------------------------- queries
\* PointInTimeQuerySet.current
current(S) == {r \in S : r.replaced_at = NULL}

\* faulty variant of active: a version ending at the instant asked for is
\* still shown
active_EndInclusive(S, at) ==
    {r \in S : ((r.end_at # NULL /\ r.end_at >= at) \/ r.end_at = NULL)
               /\ r.start_at <= at}

\* PointInTimeQuerySet.active, active_at a datetime
active(S, at) ==
    {r \in S : ((r.end_at # NULL /\ r.end_at > at) \/ r.end_at = NULL)
               /\ r.start_at <= at}

\* PointInTimeBaseManager.active (Model.records): every row, narrowed to the
\* valid ones, narrowed to the current ones
records_active(S, at) == current(active(S, at))

\* PointInTimeDefaultManager.active (Model.objects): get_queryset() shows
\* current rows only, narrowed to the valid ones
objects_active(S, at) == active(current(S), at)

\* faulty variant of version: a version created at the instant asked for is
\* not shown
version_Strict(S, at) ==
    {r \in S : ((r.replaced_at # NULL /\ r.replaced_at > at) \/ r.replaced_at = NULL)
               /\ r.created_at < at}

\* faulty variant of version: a version replaced at the instant asked for
\* is still shown
version_Inclusive(S, at) ==
    {r \in S : ((r.replaced_at # NULL /\ r.replaced_at >= at) \/ r.replaced_at = NULL)
               /\ r.created_at <= at}

\* PointInTimeQuerySet.version, version_at a datetime
version(S, at) ==
    {r \in S : ((r.replaced_at # NULL /\ r.replaced_at > at) \/ r.replaced_at = NULL)
               /\ r.created_at <= at}

\* a calendar day is TicksPerDay consecutive instants; day d holds the
\* instants d * TicksPerDay .. d * TicksPerDay + TicksPerDay - 1
DayOf(t) == t \div TicksPerDay
Days == 0..DayOf(MaxTime + 1)

\* faulty variant of combine_max: the first instant of the day
combine_max_Midnight(d) == d * TicksPerDay

\* datetime.datetime.combine(d, datetime.time.max): the last instant of day d
combine_max(d) == d * TicksPerDay + (TicksPerDay - 1)

\* PointInTimeQuerySet.active, active_at a date
active_date(S, d) == active(S, combine_max(d))

\* PointInTimeQuerySet.version, version_at a date
version_date(S, d) == version(S, combine_max(d))

\* faulty variant of First: ascending order
First_Oldest(S) ==
    CHOOSE r \in S : \A o \in S :
        \/ o.created_at > r.created_at
        \/ o.created_at = r.created_at /\ o.id >= r.id

\* .order_by("-created_at", "-pk").first() on a non-empty queryset
First(S) ==
    CHOOSE r \in S : \A o \in S :
        \/ o.created_at < r.created_at
        \/ o.created_at = r.created_at /\ o.id <= r.id

\* ------------------------------------------------------------- primitives
\* Model.save (reached through _save): UPDATE by pk, INSERT when no row has
\* that pk, INSERT with a fresh pk when the instance has none
BaseSave(db, m, inst) ==
    IF inst.id = NULL
    THEN LET r == [inst EXCEPT !.id = db.nid[m]]
         IN [db |-> [db EXCEPT ![m] = @ \cup {r}, !.nid[m] = @ + 1], inst |-> r]
    ELSE [db |-> [db EXCEPT ![m] = {x \in @ : x.id # inst.id} \cup {inst}],
          inst |-> inst]

\* faulty variant of Protected: the foreign keys do not protect their target
Protected_Never(db, m, id) == FALSE

\* on_delete=PROTECT of the two FrozenForeignKey fields
Protected(db, m, id) ==
    /\ m = "T"
    /\ \/ \E x \in db.F : x.frozen = id
       \/ \E x \in db.R : x.frozen = id

\* on_delete=CASCADE of the OneToOneField of "O": rows holding a destroyed
\* "T" row as partner are destroyed with it
Cascaded(db, m, ids) ==
    IF m = "T" THEN [db EXCEPT !.O = {x \in @ : x.one_to_one \notin ids}]
    ELSE db

\* Model.delete (reached through _delete) of one instance
BaseDelete(db, m, inst) ==
    IF inst.id = NULL THEN Fail("ValueError", db, inst)
    ELSE IF Protected(db, m, inst.id) THEN Fail("ProtectedError", db, inst)
    ELSE Ok(Cascaded([db EXCEPT ![m] = {x \in @ : x.id # inst.id}],
                     m, {inst.id}),
            [inst EXCEPT !.id = NULL])

\* the loop "for x in qs: x._delete()" over freshly fetched rows
DeleteEach(db, m, S) ==
    IF \E x \in S : Protected(db, m, x.id) THEN Fail("ProtectedError", db, Blank)
    ELSE Ok(Cascaded([db EXCEPT ![m] = @ \ S], m, {x.id : x \in S}), Blank)

\* UniqueConstraint(row_id, created_at), deferred to commit
UniqueTogether(S) ==
    \A a \in S : \A b \in S :
        (a.id # b.id /\ a.row_id # NULL /\ a.row_id = b.row_id)
            => a.created_at # b.created_at

\* the unique index of OneToOneField: no two rows hold the same partner
UniqueOneToOne(S) ==
    \A a \in S : \A b \in S :
        (a.id # b.id /\ a.one_to_one # NULL) => a.one_to_one # b.one_to_one

\* leaving transaction.atomic: commit, or roll back to db0 when the call
\* raised or a uniqueness constraint is violated
Commit(db0, res) ==
    IF ~res.ok THEN [res EXCEPT !.db = db0]
    ELSE IF /\ UniqueTogether(res.db.T) /\ UniqueTogether(res.db.F)
            /\ UniqueTogether(res.db.O) /\ UniqueOneToOne(res.db.O)
    THEN res
    ELSE Fail("IntegrityError", db0, res.inst)

\* ------------------------------------------------- move_frozen_relationships
\* rows reached through the reverse managers of self: the default manager of
\* "F" shows current rows only, that of "R" every row
RelatedF(db, selfId) == {x \in current(db.F) : x.frozen = selfId}
RelatedR(db, selfId) == {x \in db.R : x.frozen = selfId}

\* faulty variant of move_frozen_relationships: a plain referencer is
\* repointed by inserting a repointed copy next to the row it had
move_frozen_relationships_Inserts(db, m, selfId, targetId) ==
    IF m # "T" \/ (RelatedF(db, selfId) = {} /\ RelatedR(db, selfId) = {})
    THEN Ok(db, Blank)
    ELSE IF targetId = NULL
    THEN Fail("ValueError", db, Blank)
    ELSE Ok([db EXCEPT
               !.F = {IF x \in RelatedF(db, selfId)
                      THEN [x EXCEPT !.frozen = targetId] ELSE x : x \in @},
               !.R = @ \cup {[x EXCEPT !.frozen = targetId, !.id = db.nid.R]
                                : x \in RelatedR(db, selfId)},
               !.nid.R = @ + 1],
            Blank)

move_frozen_relationships(db, m, selfId, targetId) ==
    IF m # "T" \/ (RelatedF(db, selfId) = {} /\ RelatedR(db, selfId) = {})
    THEN Ok(db, Blank)
    ELSE IF targetId = NULL
    THEN Fail("ValueError", db, Blank)   \* unsaved related object
    ELSE Ok([db EXCEPT
               !.F = {IF x \in RelatedF(db, selfId)
                      THEN [x EXCEPT !.frozen = targetId] ELSE x : x \in @},
               !.R = {IF x \in RelatedR(db, selfId)
                      THEN [x EXCEPT !.frozen = targetId] ELSE x : x \in @}],
            Blank)

\* ------------------------------------------------------------------- copy
\* PointInTimeDefaultManager.copy: the stored current row of that pk,
\* inserted again under a fresh pk
copy(db, m, pk, exclude) ==
    LET found == {r \in current(db[m]) : r.id = pk}
    IN IF found = {} THEN [db |-> db, inst |-> Blank, found |-> FALSE]
       ELSE LET src == CHOOSE r \in found : TRUE
                cl == [f \in DOMAIN src |->
                          IF f = "id" \/ f \in exclude THEN NULL ELSE src[f]]
                w == BaseSave(db, m, cl)
            IN [db |-> w.db, inst |-> w.inst, found |-> TRUE]

\* faulty variant of Stamp: a created_at supplied by the caller is kept
Stamp_KeepsSupplied(self, user, now) ==
    [self EXCEPT !.created_at = IF @ # NULL THEN @ ELSE now,
                 !.replaced_at = NULL,
                 !.modified_by = IF user # NULL THEN user ELSE @,
                 !.start_at = IF @ # NULL THEN @ ELSE now]

\* ------------------------------------------------------------------- save
\* the system-managed attributes of the version being written
Stamp(self, user, now) ==
    [self EXCEPT !.created_at = now,
                 !.replaced_at = NULL,
                 !.modified_by = IF user # NULL THEN user ELSE @,
                 !.start_at = IF @ # NULL THEN @ ELSE now]

\* the tail of save() shared by create and update
SaveTail(db, m, self, user, now) ==
    LET s1 == Stamp(self, user, now)
        w1 == BaseSave(db, m, s1)
    IN IF w1.inst.row_id = NULL
       THEN LET w2 == BaseSave(w1.db, m, [w1.inst EXCEPT !.row_id = w1.inst.id])
            IN Ok(w2.db, w2.inst)
       ELSE Ok(w1.db, w1.inst)

\* faulty variants of Replaced: the clone is left current; the clone is
\* closed at its own creation time
Replaced_KeepsCurrent(clone, now, pk) == [clone EXCEPT !.row_id = pk]
Replaced_AtCreation(clone, now, pk) ==
    [clone EXCEPT !.replaced_at = clone.created_at, !.row_id = pk]

\* faulty variant of Replaced: the pointer to the current record is lost
Replaced_Ungrouped(clone, now, pk) ==
    [clone EXCEPT !.replaced_at = now, !.row_id = NULL]

\* the clone becomes the replaced version of the group of pk
Replaced(clone, now, pk) == [clone EXCEPT !.replaced_at = now, !.row_id = pk]

\* faulty variant of IsReplaced: the first assertion of save is dropped
IsReplaced_Never(self) == FALSE

\* faulty variant of SaveBody: the new payload goes to a fresh row and the
\* stored row is closed in place
SaveBody_AppendNew(db, m, self, user, now) ==
    IF self.id # NULL /\ self.replaced_at = NULL
                      /\ (\E r \in current(db[m]) : r.id = self.id)
    THEN LET old == CHOOSE r \in current(db[m]) : r.id = self.id
             w == BaseSave(db, m, [old EXCEPT !.replaced_at = now])
             n == BaseSave(w.db, m, [Stamp(self, user, now) EXCEPT !.id = NULL])
         IN Ok(n.db, n.inst)
    ELSE IF self.id # NULL THEN Fail("AssertionError", db, self)
    ELSE SaveTail(db, m, [self EXCEPT !.row_id = NULL, !.replaced_at = NULL],
                  user, now)

\* "updating a row that has already been replaced is illegal"
IsReplaced(self) == self.replaced_at # NULL

\* PointInTimeModel.save inside its transaction
SaveBody(db, m, self, user, now) ==
    IF self.id # NULL
    THEN IF IsReplaced(self) THEN Fail("AssertionError", db, self)
         ELSE LET c == copy(db, m, self.id, get_one_to_one_fields(m))
              IN IF ~c.found THEN Fail("AssertionError", db, self)
                 ELSE LET original == Replaced(c.inst, now, self.id)
                          w == BaseSave(c.db, m, original)
                          mv == move_frozen_relationships(w.db, m, self.id, original.id)
                      IN SaveTail(mv.db, m, self, user, now)
    ELSE SaveTail(db, m, [self EXCEPT !.row_id = NULL, !.replaced_at = NULL],
                  user, now)

save(db, m, self, user, now) == Commit(db, SaveBody(db, m, self, user, now))

\* faulty variant of delete: nothing is written
delete_Noop(db, m, self, now) == Commit(db, Ok(db, self))

\* ----------------------------------------------------------------- delete
\* PointInTimeModel.delete (soft delete)
delete(db, m, self, now) ==
    LET s1 == [self EXCEPT !.replaced_at = now]
        w == BaseSave(db, m, s1)
    IN Commit(db, Ok(w.db, w.inst))

\* faulty variant of PurgeBody: only the row of the instance is destroyed
PurgeBody_OnlySelf(db, m, self) == BaseDelete(db, m, self)

\* ------------------------------------------------------------------ purge
PurgeBody(db, m, self) ==
    LET others == {r \in db[m] : r.row_id = self.row_id /\ r.id # self.id}
        d == DeleteEach(db, m, others)
    IN IF ~d.ok THEN Fail(d.err, db, self)
       ELSE BaseDelete(d.db, m, self)

purge(db, m, self) == Commit(db, PurgeBody(db, m, self))

\* --------------------------------------------------------------- rollback
NoFields == [given |-> FALSE, names |-> {}]
Given(names) == [given |-> TRUE, names |-> names]

\* faulty variant of Reverted: a field named in fields is reverted even when
\* exclude names it too
Reverted_InclusionWins(fields, exclude, f) ==
    \/ fields.given /\ f \in fields.names
    \/ ~fields.given /\ f \notin exclude

\* the field loop of _rollback_to
Reverted(fields, exclude, f) ==
    /\ ~fields.given \/ f \in fields.names
    /\ f \notin exclude

\* faulty variant of RevertFields: exclude is not consulted
RevertFields_IgnoresExclude(self, previous, fields, exclude) ==
    [f \in DOMAIN self |->
        IF f = "id" THEN self[f]
        ELSE IF f = "snap"
        THEN IF ~fields.given \/ "frozen" \in fields.names
             THEN previous[f] ELSE self[f]
        ELSE IF ~fields.given \/ f \in fields.names THEN previous[f] ELSE self[f]]

RevertFields(self, previous, fields, exclude) ==
    [f \in DOMAIN self |->
        IF f = "id" THEN self[f]
        ELSE IF f = "snap"
        THEN IF Reverted(fields, exclude, "frozen") THEN previous[f] ELSE self[f]
        ELSE IF Reverted(fields, exclude, f) THEN previous[f] ELSE self[f]]

\* the reverted instance takes the place of previous in transaction time
TakePlace(self, previous) ==
    [self EXCEPT !.replaced_at = NULL, !.created_at = previous.created_at]

\* faulty variant of Superseded: the row_id filter is missing
Superseded_AnyGroup(S, self) ==
    {r \in S : /\ r.created_at >= self.created_at
               /\ r.id # self.id}

\* faulty variant of Superseded: only the version rolled back to is destroyed
Superseded_OnlyPrevious(S, self) ==
    {r \in S : /\ r.created_at = self.created_at
               /\ r.row_id = self.row_id
               /\ r.id # self.id}

\* the versions a rollback destroys: previous and everything after it
Superseded(S, self) ==
    {r \in S : /\ r.created_at >= self.created_at
               /\ r.row_id = self.row_id
               /\ r.id # self.id}

_rollback_to(db, m, self, previous, fields, exclude0) ==
    IF self.id = previous.id THEN Fail("Exception", db, self)
    ELSE IF self.replaced_at # NULL THEN Fail("Exception", db, self)
    ELSE IF ~(self.created_at > previous.created_at)
    THEN Fail("AssertionError", db, self)
    ELSE LET exclude == exclude0 \cup get_one_to_one_fields(m)
             s1 == RevertFields(self, previous, fields, exclude)
             s2 == TakePlace(s1, previous)
             mv == move_frozen_relationships(db, m, previous.id, s2.id)
         IN IF ~mv.ok THEN Fail(mv.err, db, s2)
            ELSE LET doomed == Superseded(mv.db[m], s2)
                     d == DeleteEach(mv.db, m, doomed)
                 IN IF ~d.ok THEN Fail(d.err, db, s2)
                    ELSE LET w == BaseSave(d.db, m, s2)
                         IN Ok(w.db, w.inst)

\* faulty variant of rollback_latest: a first version is left in place
rollback_latest_KeepsFirst(db, m, self, fields, exclude) ==
    LET prev == {r \in db[m] : r.row_id = self.row_id /\ r.id # self.id}
    IN Commit(db,
         IF prev = {} THEN Ok(db, self)
         ELSE _rollback_to(db, m, self, First(prev), fields, exclude))

rollback_latest(db, m, self, fields, exclude) ==
    LET prev == {r \in db[m] : r.row_id = self.row_id /\ r.id # self.id}
    IN Commit(db,
         IF prev = {} THEN BaseDelete(db, m, self)
         ELSE _rollback_to(db, m, self, First(prev), fields, exclude))

\* faulty variants of rollback_to_at: the "already the version we want"
\* branch is missing; a missing target is an error
rollback_to_at_NoShortcut(db, m, self, time, fields, exclude) ==
    LET newer == {r \in db[m] : r.row_id = self.row_id
                                /\ r.created_at >= self.created_at}
        cand == {r \in db[m] : r.row_id = self.row_id /\ r.created_at <= time}
    IN Commit(db,
         IF Cardinality(newer) # 1 THEN Fail("AssertionError", db, self)
         ELSE IF cand = {} THEN PurgeBody(db, m, self)
         ELSE _rollback_to(db, m, self, First(cand), fields, exclude))

rollback_to_at_MissingIsError(db, m, self, time, fields, exclude) ==
    LET newer == {r \in db[m] : r.row_id = self.row_id
                                /\ r.created_at >= self.created_at}
        cand == {r \in db[m] : r.row_id = self.row_id /\ r.created_at <= time}
    IN Commit(db,
         IF Cardinality(newer) # 1 THEN Fail("AssertionError", db, self)
         ELSE IF cand = {} THEN Fail("Exception", db, self)
         ELSE IF First(cand).id = self.id THEN Ok(db, self)
         ELSE _rollback_to(db, m, self, First(cand), fields, exclude))

rollback_to_at(db, m, self, time, fields, exclude) ==
    LET newer == {r \in db[m] : r.row_id = self.row_id
                                /\ r.created_at >= self.created_at}
        cand == {r \in db[m] : r.row_id = self.row_id /\ r.created_at <= time}
    IN Commit(db,
         IF Cardinality(newer) # 1 THEN Fail("AssertionError", db, self)
         ELSE IF cand = {} THEN PurgeBody(db, m, self)
         ELSE IF First(cand).id = self.id THEN Ok(db, self)
         ELSE _rollback_to(db, m, self, First(cand), fields, exclude))

\* ----------------------------------------------------------- transactions
\* no transaction in flight
NoTxn == [active |-> FALSE, pos |-> 0, stages |-> <<>>, res |-> [ok |-> FALSE]]

\* faulty variant of Written: every statement is committed as it is executed
Written_Autocommit(committed, working) == working

\* @transaction.atomic: what a statement executed inside the block does to
\* the committed store, given the working copy it produces: nothing
Written(committed, working) == committed

\* the working copies save() passes through, statement by statement:
\* update = copy, original._save, move_frozen_relationships, self._save;
\* create = self._save, self._save with row_id
SaveStages(db, m, self, user, now) ==
    IF self.id # NULL
    THEN IF IsReplaced(self) THEN <<>>
         ELSE LET c == copy(db, m, self.id, get_one_to_one_fields(m))
              IN IF ~c.found THEN <<>>
                 ELSE LET original == Replaced(c.inst, now, self.id)
                          w == BaseSave(c.db, m, original)
                          mv == move_frozen_relationships(w.db, m, self.id, original.id)
                          t == SaveTail(mv.db, m, self, user, now)
                      IN <<c.db, w.db, mv.db, t.db>>
    ELSE LET s0 == [self EXCEPT !.row_id = NULL, !.replaced_at = NULL]
             w1 == BaseSave(db, m, Stamp(s0, user, now))
             t == SaveTail(db, m, s0, user, now)
         IN <<w1.db, t.db>>

\* purge(): the other versions destroyed, then the row of the instance
PurgeStages(db, m, self) ==
    LET others == {r \in db[m] : r.row_id = self.row_id /\ r.id # self.id}
        d == DeleteEach(db, m, others)
    IN IF ~d.ok THEN <<>>
       ELSE LET e == BaseDelete(d.db, m, self)
            IN IF e.ok THEN <<d.db, e.db>> ELSE <<d.db>>

\* _rollback_to(): frozen references moved, later versions destroyed,
\* self._save
RollbackStages(db, m, self, previous, fields, exclude0) ==
    IF self.id = previous.id \/ self.replaced_at # NULL
                             \/ ~(self.created_at > previous.created_at)
    THEN <<>>
    ELSE LET exclude == exclude0 \cup get_one_to_one_fields(m)
             s2 == TakePlace(RevertFields(self, previous, fields, exclude), previous)
             mv == move_frozen_relationships(db, m, previous.id, s2.id)
         IN IF ~mv.ok THEN <<>>
            ELSE LET d == DeleteEach(mv.db, m, Superseded(mv.db[m], s2))
                 IN IF ~d.ok THEN <<mv.db>>
                    ELSE <<mv.db, d.db, BaseSave(d.db, m, s2).db>>

rollback_latest_stages(db, m, self, fields, exclude) ==
    LET prev == {r \in db[m] : r.row_id = self.row_id /\ r.id # self.id}
    IN IF prev = {}
       THEN IF BaseDelete(db, m, self).ok THEN <<BaseDelete(db, m, self).db>>
            ELSE <<>>
       ELSE RollbackStages(db, m, self, First(prev), fields, exclude)

rollback_to_at_stages(db, m, self, time, fields, exclude) ==
    LET newer == {r \in db[m] : r.row_id = self.row_id
                                /\ r.created_at >= self.created_at}
        cand == {r \in db[m] : r.row_id = self.row_id /\ r.created_at <= time}
    IN IF Cardinality(newer) # 1 THEN <<>>
       ELSE IF cand = {} THEN PurgeStages(db, m, self)
       ELSE IF First(cand).id = self.id THEN <<>>
       ELSE RollbackStages(db, m, self, First(cand), fields, exclude)

\* ------------------------------------------------------------ concurrency
\* two connections, each running save() in its own transaction.atomic block
Writers == {"w1", "w2"}

\* a writer outside save()
Idle == [pc |-> "idle", outcome |-> "none", self |-> Blank, now |-> NULL,
         original |-> Blank, ws |-> {}]

\* the table a transaction reads: the committed rows, overlaid with the
\* rows it wrote itself
Overlay(S, ws) == {r \in S : \A x \in ws : x.id # r.id} \cup ws

\* ----------------------------------------------------- transaction records
\* the table of transaction_class and the table of a model whose manager
\* mixes in TransactionBasedModelManagerMixin, both empty
NoLedger == [transactions |-> {}, objects |-> {}, tid |-> 1, oid |-> 1]

\* ---------------------------------------------------------------- actions
\* the database after a call, and the instance the caller w is left with
Apply(w, res) ==
    /\ \A m \in {"T", "F", "R", "O"} : res.db.nid[m] <= MaxId + 1
    /\ rows' = res.db.T
    /\ frows' = res.db.F
    /\ rrows' = res.db.R
    /\ orows' = res.db.O
    /\ nextId' = res.db.nid
    /\ handles' = IF w \in Handles THEN [handles EXCEPT ![w] = res.inst]
                  ELSE handles

Init ==
    /\ rows = {}
    /\ frows = {}
    /\ rrows = {}
    /\ orows = {}
    /\ nextId = [T |-> 1, F |-> 1, R |-> 1, O |-> 1]
    /\ handles = [h \in Handles |-> Blank]
    /\ txn = NoTxn
    /\ race = [w \in Writers |-> Idle]
    /\ ledger = NoLedger
    /\ clock = 1

\* time passes between two calls
Tick ==
    /\ clock < MaxTime
    /\ clock' = clock + 1
    /\ UNCHANGED <<rows, frows, rrows, orows, nextId, handles, txn, race, ledger>>

\* Model(**kw)
New(kw) == [f \in DOMAIN Blank |-> IF f \in DOMAIN kw THEN kw[f] ELSE Blank[f]]

\* Model.records.create(**kw): the caller may pass any field
Create(w, kw) ==
    LET res == save(TheDb, "T", New(kw), NULL, clock)
    IN /\ Apply(w, res)
       /\ UNCHANGED <<clock, txn, race, ledger>>

\* h = Model.records.get(pk=id): any stored version, current or not
Load(h, id) ==
    /\ \E r \in rows : r.id = id /\ handles' = [handles EXCEPT ![h] = r]
    /\ UNCHANGED <<rows, frows, rrows, orows, nextId, txn, clock, race, ledger>>

\* h.<field> = value on a payload field
Edit(h, f, v) ==
    /\ handles[h] # Blank
    /\ handles[h][f] # v
    /\ handles' = [handles EXCEPT ![h][f] = v]
    /\ UNCHANGED <<rows, frows, rrows, orows, nextId, txn, clock, race, ledger>>

\* self.save(user) by caller w
Save(w, self, user) ==
    LET res == save(TheDb, "T", self, user, clock)
    IN /\ self # Blank
       /\ Apply(w, res)
       /\ UNCHANGED <<clock, txn, race, ledger>>

\* self.delete()
Delete(w, self) ==
    LET res == delete(TheDb, "T", self, clock)
    IN /\ self # Blank
       /\ Apply(w, res)
       /\ UNCHANGED <<clock, txn, race, ledger>>

\* self.purge()
Purge(w, self) ==
    LET res == purge(TheDb, "T", self)
    IN /\ self # Blank
       /\ Apply(w, res)
       /\ UNCHANGED <<clock, txn, race, ledger>>

\* self.rollback_latest(fields, exclude)
RollbackLatest(w, self, fields, exclude) ==
    LET res == rollback_latest(TheDb, "T", self, fields, exclude)
    IN /\ self # Blank
       /\ Apply(w, res)
       /\ UNCHANGED <<clock, txn, race, ledger>>

\* self.rollback_to_at(time, fields, exclude)
RollbackToAt(w, self, time, fields, exclude) ==
    LET res == rollback_to_at(TheDb, "T", self, time, fields, exclude)
    IN /\ self # Blank
       /\ Apply(w, res)
       /\ UNCHANGED <<clock, txn, race, ledger>>

\* DummyPITAModel7FrozenForeignKey.objects.create(frozen=<T row tid>)
FormRefF(tid) ==
    \E t \in rows :
      LET self == New([c1 |-> "A", frozen |-> tid, snap |-> Payload(t)])
          res == save(TheDb, "F", self, NULL, clock)
      IN /\ t.id = tid
         /\ Cardinality({r.row_id : r \in frows}) < MaxRef
         /\ Apply(Fresh, res)
         /\ UNCHANGED <<clock, txn, race, ledger>>

\* a = F.objects.get(pk=id); a.c1 = v; a.save()
UpdateRefF(id, v) ==
    \E r \in current(frows) :
      LET res == save(TheDb, "F", [r EXCEPT !.c1 = v], NULL, clock)
      IN /\ r.id = id
         /\ r.c1 # v
         /\ Apply(Fresh, res)
         /\ UNCHANGED <<clock, txn, race, ledger>>

\* DummyRegularModel7FrozenForeignKey.objects.create(frozen=<T row tid>)
FormRefR(tid) ==
    \E t \in rows :
      /\ t.id = tid
      /\ Cardinality(rrows) < MaxRef
      /\ rrows' = rrows \cup {[id |-> nextId.R, c1 |-> "B", frozen |-> tid,
                               snap |-> Payload(t)]}
      /\ nextId' = [nextId EXCEPT !.R = @ + 1]
      /\ UNCHANGED <<rows, frows, orows, handles, txn, clock, race, ledger>>

\* ------------------------------------------------------------------ inputs
Ids == 1..MaxId

\* (fields, exclude) of a rollback call
Everything == [fields |-> NoFields, exclude |-> {}]
AllButC1 == [fields |-> NoFields, exclude |-> {"c1"}]

\* x = Model.objects.get(pk=..): the default manager shows current rows
Fetched == current(rows)
\* ... followed by x.c1 = c
FetchedEdited == {[r EXCEPT !.c1 = c] : r \in Fetched, c \in C1Values}

\* the instances a call can be made on: the long-lived one of h1 (possibly
\* stale, possibly edited), or one fetched for the call
Callers(S) == {[w |-> "h1", self |-> handles["h1"]]}
                  \cup {[w |-> Fresh, self |-> x] : x \in S}

\* ---------------------------------------------------------- specifications
\* every operation of the versioning engine on table "T"
Next ==
    \/ Tick
    \/ \E w \in {"h1", Fresh}, c \in C1Values : Create(w, [c1 |-> c])
    \/ \E id \in Ids : Load("h1", id)
    \/ \E c \in C1Values : Edit("h1", "c1", c)
    \/ \E k \in Callers(FetchedEdited) : Save(k.w, k.self, NULL)
    \/ \E k \in Callers(Fetched) : Delete(k.w, k.self)
    \/ \E k \in Callers(Fetched) : Purge(k.w, k.self)
    \/ \E k \in Callers(Fetched), a \in {Everything, AllButC1} :
          RollbackLatest(k.w, k.self, a.fields, a.exclude)
    \/ \E k \in Callers(Fetched), t \in Times, a \in {Everything, AllButC1} :
          RollbackToAt(k.w, k.self, t, a.fields, a.exclude)

Spec == Init /\ [][Next]_vars

\* only creates and updates: no version is ever deleted or rolled back
NextUpd ==
    \/ Tick
    \/ \E w \in {"h1", Fresh}, c \in C1Values : Create(w, [c1 |-> c])
    \/ \E id \in Ids : Load("h1", id)
    \/ \E c \in C1Values : Edit("h1", "c1", c)
    \/ \E k \in Callers(FetchedEdited) : Save(k.w, k.self, NULL)

SpecUpd == Init /\ [][NextUpd]_vars

\* frozen references to "T" rows, held by "F" and "R" rows, under updates of
\* the target and of the versioned referencer
NextRefUpd ==
    \/ Tick
    \/ \E c \in C1Values : Create(Fresh, [c1 |-> c])
    \/ \E x \in FetchedEdited : Save(Fresh, x, NULL)
    \/ \E id \in Ids : FormRefF(id)
    \/ \E id \in Ids, c \in {"A", "A2"} : UpdateRefF(id, c)
    \/ \E id \in Ids : FormRefR(id)

SpecRefUpd == Init /\ [][NextRefUpd]_vars

\* ... and under rollback and purge of the target
NextRef ==
    \/ NextRefUpd
    \/ \E x \in Fetched : Purge(Fresh, x)
    \/ \E x \in Fetched, a \in {Everything, AllButC1} :
          RollbackLatest(Fresh, x, a.fields, a.exclude)
    \/ \E x \in Fetched, t \in Times, a \in {Everything, AllButC1} :
          RollbackToAt(Fresh, x, t, a.fields, a.exclude)

SpecRef == Init /\ [][NextRef]_vars

\* ... and under soft delete of the target
NextRefDel ==
    \/ NextRef
    \/ \E x \in Fetched : Delete(Fresh, x)

SpecRefDel == Init /\ [][NextRefDel]_vars

\* ------------------------------------------- payload and system attributes
Users == {1}
\* end_at values a caller sets: none, or an instant after every clock reading
EndValues == {NULL, MaxTime + 1}
PayloadFields == {"c1", "start_at", "end_at", "modified_by"}

\* keyword arguments of Model.records.create(**kw), system-managed ones too
CreateInputs ==
    [c1 : {"first"}, created_at : {NULL, 1}, replaced_at : {NULL, 1},
     row_id : {NULL, 1}, start_at : {NULL, 1}, end_at : EndValues,
     modified_by : {NULL} \cup Users]

\* (fields, exclude) of a rollback call
FieldOptions ==
    {Everything, AllButC1,
     [fields |-> Given({"c1"}), exclude |-> {}],
     [fields |-> Given({"end_at"}), exclude |-> {"c1"}],
     [fields |-> Given({"c1", "end_at"}), exclude |-> {"c1"}],
     [fields |-> Given({}), exclude |-> {}]}

\* x = Model.objects.get(pk=..); x.c1 = c; x.end_at = e
FetchedEditedAll ==
    {[r EXCEPT !.c1 = c, !.end_at = e] :
        r \in Fetched, c \in C1Values, e \in EndValues}

\* creates with caller-supplied attributes, updates of two payload fields,
\* rollbacks restricted by fields/exclude
NextFields ==
    \/ Tick
    \/ \E kw \in CreateInputs : Create(Fresh, kw)
    \/ \E x \in FetchedEditedAll : Save(Fresh, x, NULL)
    \/ \E x \in Fetched, a \in FieldOptions :
          RollbackLatest(Fresh, x, a.fields, a.exclude)
    \/ \E x \in Fetched, t \in Times, a \in FieldOptions :
          RollbackToAt(Fresh, x, t, a.fields, a.exclude)

SpecFields == Init /\ [][NextFields]_vars

\* ------------------------------------------------------ one-to-one fields
\* partners a caller can name: none, or a stored "T" row
Partners == {NULL} \cup {r.id : r \in rows}

\* DummyPITAModel4OneToOne.objects.create(one_to_one=p, c1="A")
CreateO(p) ==
    LET res == save(TheDb, "O", New([c1 |-> "A", one_to_one |-> p]), NULL, clock)
    IN /\ Apply(Fresh, res)
       /\ UNCHANGED <<clock, txn, race, ledger>>

\* x = O.objects.get(pk=..); x.c1 = c; x.one_to_one = p; x.save()
SaveO(self, c, p) ==
    LET res == save(TheDb, "O", [self EXCEPT !.c1 = c, !.one_to_one = p],
                    NULL, clock)
    IN /\ Apply(Fresh, res)
       /\ UNCHANGED <<clock, txn, race, ledger>>

\* x = O.objects.get(pk=..); x.rollback_latest(fields, exclude)
RollbackLatestO(self, fields, exclude) ==
    LET res == rollback_latest(TheDb, "O", self, fields, exclude)
    IN /\ Apply(Fresh, res)
       /\ UNCHANGED <<clock, txn, race, ledger>>

\* x = O.objects.get(pk=..); x.rollback_to_at(time, fields, exclude)
RollbackToAtO(self, time, fields, exclude) ==
    LET res == rollback_to_at(TheDb, "O", self, time, fields, exclude)
    IN /\ Apply(Fresh, res)
       /\ UNCHANGED <<clock, txn, race, ledger>>

\* (fields, exclude) of a rollback call on "O"
OneOptions ==
    {Everything, AllButC1,
     [fields |-> Given({"one_to_one"}), exclude |-> {}],
     [fields |-> Given({"c1", "one_to_one"}), exclude |-> {}]}

\* x = O.objects.get(pk=..)
FetchedO == current(orows)

\* partners are created and purged; rows holding a one-to-one field are
\* created, updated (payload and partner) and rolled back
NextOne ==
    \/ Tick
    \/ Create(Fresh, [c1 |-> "first"])
    \/ \E x \in Fetched : Purge(Fresh, x)
    \/ \E p \in Partners : CreateO(p)
    \/ \E x \in FetchedO, c \in {"A", "A2"}, p \in Partners : SaveO(x, c, p)
    \/ \E x \in FetchedO, a \in OneOptions :
          RollbackLatestO(x, a.fields, a.exclude)
    \/ \E x \in FetchedO, t \in Times, a \in OneOptions :
          RollbackToAtO(x, t, a.fields, a.exclude)

SpecOne == Init /\ [][NextOne]_vars

\* ------------------------------------------------------------- wall clock
\* timezone.now() reads the wall clock, which is not monotonic: between two
\* calls it may be stepped to any reading, earlier ones included
Adjust(t) ==
    /\ t # clock
    /\ clock' = t
    /\ UNCHANGED <<rows, frows, rrows, orows, nextId, handles, txn, race, ledger>>

\* creates, updates and rollbacks under arbitrary successive clock readings
NextClock ==
    \/ \E t \in Times : Adjust(t)
    \/ \E c \in C1Values : Create(Fresh, [c1 |-> c])
    \/ \E x \in FetchedEdited : Save(Fresh, x, NULL)
    \/ \E x \in Fetched : RollbackLatest(Fresh, x, NoFields, {})

SpecClock == Init /\ [][NextClock]_vars

\* ------------------------------------------- transactions, step by step
\* entering the atomic block of an operation whose statements lead through
\* stages and whose outcome at the end of the block is res
Begin(stages, res) ==
    /\ ~txn.active
    /\ \A m \in {"T", "F", "R", "O"} : res.db.nid[m] <= MaxId + 1
    /\ txn' = [active |-> TRUE, pos |-> 0, stages |-> stages, res |-> res]
    /\ UNCHANGED <<rows, frows, rrows, orows, nextId, handles, clock, race, ledger>>

\* the next statement of the block is executed
Step ==
    /\ txn.active
    /\ txn.pos < Len(txn.stages)
    /\ LET d == Written(TheDb, txn.stages[txn.pos + 1])
       IN /\ rows' = d.T
          /\ frows' = d.F
          /\ rrows' = d.R
          /\ orows' = d.O
          /\ nextId' = d.nid
    /\ txn' = [txn EXCEPT !.pos = @ + 1]
    /\ UNCHANGED <<handles, clock, race, ledger>>

\* an exception or a crash part-way through: the block is rolled back
Abort ==
    /\ txn.active
    /\ txn' = NoTxn
    /\ UNCHANGED <<rows, frows, rrows, orows, nextId, handles, clock, race, ledger>>

\* leaving the block after its last statement
End ==
    /\ txn.active
    /\ txn.pos = Len(txn.stages)
    /\ Apply(Fresh, txn.res)
    /\ txn' = NoTxn
    /\ UNCHANGED <<clock, race, ledger>>

\* one writer at a time runs create, update, rollback_latest, rollback_to_at
\* or purge statement by statement; frozen references are formed in between
NextTxn ==
    \/ Tick
    \/ \E c \in C1Values :
          Begin(SaveStages(TheDb, "T", New([c1 |-> c]), NULL, clock),
                save(TheDb, "T", New([c1 |-> c]), NULL, clock))
    \/ \E x \in FetchedEdited :
          Begin(SaveStages(TheDb, "T", x, NULL, clock),
                save(TheDb, "T", x, NULL, clock))
    \/ \E x \in Fetched :
          Begin(rollback_latest_stages(TheDb, "T", x, NoFields, {}),
                rollback_latest(TheDb, "T", x, NoFields, {}))
    \/ \E x \in Fetched, t \in Times :
          Begin(rollback_to_at_stages(TheDb, "T", x, t, NoFields, {}),
                rollback_to_at(TheDb, "T", x, t, NoFields, {}))
    \/ \E x \in Fetched :
          Begin(PurgeStages(TheDb, "T", x), purge(TheDb, "T", x))
    \/ Step
    \/ Abort
    \/ End
    \/ \E id \in Ids : ~txn.active /\ FormRefR(id)

SpecTxn == Init /\ [][NextTxn]_vars

\* ------------------------------------------------------ concurrent updates
\* writer w enters save() on a fetched, edited current version:
\* current_time = timezone.now(); the first assertion passes
SaveEnter(w, x) ==
    /\ race[w].pc = "idle"
    /\ ~IsReplaced(x)
    /\ race' = [race EXCEPT ![w] = [Idle EXCEPT !.pc = "read", !.self = x,
                                                !.now = clock]]
    /\ UNCHANGED <<rows, frows, rrows, orows, nextId, handles, txn, clock, ledger>>

\* read-current: copy() fetches self.current().filter(pk=pk).first(); the
\* second assertion of save() fails when there is no such row
SaveRead(w) ==
    /\ race[w].pc = "read"
    /\ LET found == {r \in current(Overlay(rows, race[w].ws)) :
                        r.id = race[w].self.id}
       IN race' = [race EXCEPT ![w] =
                     IF found = {}
                     THEN [@ EXCEPT !.pc = "idle", !.outcome = "aborted"]
                     ELSE [@ EXCEPT !.pc = "clone",
                                    !.original = CHOOSE r \in found : TRUE]]
    /\ UNCHANGED <<rows, frows, rrows, orows, nextId, handles, txn, clock, ledger>>

\* write-clone: the row read is inserted under a fresh pk (the sequence is
\* not transactional), closed at current_time and tied to the group
SaveClone(w) ==
    /\ race[w].pc = "clone"
    /\ nextId.T <= MaxId
    /\ LET cl == [f \in DOMAIN Blank |->
                    IF f = "id" \/ f \in get_one_to_one_fields("T") THEN NULL
                    ELSE race[w].original[f]]
           ins == BaseSave([TheDb EXCEPT !.T = Overlay(rows, race[w].ws)],
                           "T", cl)
           original == Replaced(ins.inst, race[w].now, race[w].self.id)
       IN /\ race' = [race EXCEPT ![w].pc = "current",
                                  ![w].ws = @ \cup {original}]
          /\ nextId' = ins.db.nid
    /\ UNCHANGED <<rows, frows, rrows, orows, handles, txn, clock, ledger>>

\* write-current: self._save() with the attributes stamped at current_time
SaveCurrent(w) ==
    /\ race[w].pc = "current"
    /\ LET s1 == Stamp(race[w].self, NULL, race[w].now)
       IN race' = [race EXCEPT ![w].pc = "commit",
                               ![w].self = s1,
                               ![w].ws = {x \in @ : x.id # s1.id} \cup {s1}]
    /\ UNCHANGED <<rows, frows, rrows, orows, nextId, handles, txn, clock, ledger>>

\* faulty variant of SaveCommit: the deferred constraint is not checked
SaveCommit_Unchecked(w) ==
    /\ race[w].pc = "commit"
    /\ rows' = Overlay(rows, race[w].ws)
    /\ race' = [race EXCEPT ![w].pc = "idle", ![w].outcome = "committed",
                            ![w].original = Blank, ![w].ws = {}]
    /\ UNCHANGED <<frows, rrows, orows, nextId, handles, txn, clock, ledger>>

\* leaving transaction.atomic: the writes become visible together, unless
\* the deferred UniqueConstraint(row_id, created_at) fails on the result, in
\* which case the transaction is rolled back (IntegrityError)
SaveCommit(w) ==
    /\ race[w].pc = "commit"
    /\ LET after == Overlay(rows, race[w].ws)
       IN IF UniqueTogether(after)
          THEN /\ rows' = after
               /\ race' = [race EXCEPT ![w].pc = "idle",
                                       ![w].outcome = "committed",
                                       ![w].original = Blank, ![w].ws = {}]
          ELSE /\ rows' = rows
               /\ race' = [race EXCEPT ![w].pc = "idle",
                                       ![w].outcome = "aborted",
                                       ![w].original = Blank, ![w].ws = {}]
    /\ UNCHANGED <<frows, rrows, orows, nextId, handles, txn, clock, ledger>>

\* creates, and updates of two connections interleaved step by step
NextRace ==
    \/ Tick
    \/ \E c \in C1Values : Create(Fresh, [c1 |-> c])
    \/ \E w \in Writers : \E x \in FetchedEdited : SaveEnter(w, x)
    \/ \E w \in Writers : SaveRead(w)
    \/ \E w \in Writers : SaveClone(w)
    \/ \E w \in Writers : SaveCurrent(w)
    \/ \E w \in Writers : SaveCommit(w)

SpecRace == Init /\ [][NextRace]_vars

\* --------------------------------------------------------------- validity
\* PointInTimeModel.clean: TRUE when it raises ValidationError.  Only
\* full_clean() calls it; save() does not
clean(self) == self.end_at # NULL /\ self.end_at <= self.start_at

\* keyword arguments of Model.objects.create(start_at=.., end_at=..)
ValidityInputs ==
    [c1 : {"first"}, start_at : Times, end_at : {NULL} \cup Times]

\* x = Model.objects.get(pk=..); x.end_at = e
FetchedEnded == {[r EXCEPT !.end_at = e] : r \in Fetched, e \in {NULL} \cup Times}

\* creates and updates with any validity window
NextValid ==
    \/ Tick
    \/ \E kw \in ValidityInputs : Create(Fresh, kw)
    \/ \E x \in FetchedEnded : Save(Fresh, x, NULL)

SpecValid == Init /\ [][NextValid]_vars

\* ---------------------------------------------------------------- web api
\* request.data of POST <pk>/rollback/.  "time" is an ISO string of an
\* instant, or absent or unparsable; "fields" and "exclude" are absent, a
\* JSON number or boolean (no __iter__), or a list of field names
WebTimes == {[iso |-> FALSE, t |-> NULL]} \cup {[iso |-> TRUE, t |-> t] : t \in Times}
Absent == [kind |-> "absent", names |-> {}]
Scalar == [kind |-> "scalar", names |-> {}]
Listed(names) == [kind |-> "list", names |-> names]
WebNames == {Absent, Scalar, Listed({"c1"})}
Requests == [time : WebTimes, fields : WebNames, exclude : WebNames]

\* utils.datetime_from_web: the instant of an ISO string, None otherwise
datetime_from_web(v) ==
    IF v.iso THEN [kind |-> "datetime", v |-> v.t] ELSE [kind |-> "none", v |-> NULL]

\* utils.date_or_datetime: the date when the time of day is midnight
date_or_datetime(value) ==
    IF value.kind = "datetime" /\ value.v % TicksPerDay = 0
    THEN [kind |-> "date", v |-> DayOf(value.v)]
    ELSE value

\* DateTimeField lookup value: a date stands for its first instant
LookupInstant(value) ==
    IF value.kind = "date" THEN value.v * TicksPerDay ELSE value.v

\* the fields / exclude arguments as the model methods read them
AsFields(x) == IF x.kind = "absent" THEN NoFields ELSE Given(x.names)
AsExclude(x) == x.names

Response(code, db) == [status |-> code, db |-> db]

\* faulty variant of rollback_view: fields and exclude are not validated, a
\* value without __iter__ is read as absent
rollback_view_Unvalidated(db, pk, data) ==
    LET time == date_or_datetime(datetime_from_web(data.time))
        found == {r \in current(db.T) : r.id = pk}
    IN IF found = {} THEN Response(404, db)
       ELSE LET instance == CHOOSE r \in found : TRUE
                res == IF time.kind = "none"
                       THEN rollback_latest(db, "T", instance,
                                AsFields(data.fields), AsExclude(data.exclude))
                       ELSE rollback_to_at(db, "T", instance, LookupInstant(time),
                                AsFields(data.fields), AsExclude(data.exclude))
            IN IF ~res.ok THEN Response(500, res.db)
               ELSE IF \E r \in current(res.db.T) : r.id = pk
               THEN Response(200, res.db)
               ELSE Response(204, res.db)

\* PointInTimeModelViewSet.rollback
rollback_view(db, pk, data) ==
    LET time == date_or_datetime(datetime_from_web(data.time))
        found == {r \in current(db.T) : r.id = pk}
    IN IF data.fields.kind = "scalar" THEN Response(400, db)
       ELSE IF data.exclude.kind = "scalar" THEN Response(400, db)
       ELSE IF found = {} THEN Response(404, db)      \* get_object()
       ELSE LET instance == CHOOSE r \in found : TRUE
                res == IF time.kind = "none"
                       THEN rollback_latest(db, "T", instance,
                                AsFields(data.fields), AsExclude(data.exclude))
                       ELSE rollback_to_at(db, "T", instance, LookupInstant(time),
                                AsFields(data.fields), AsExclude(data.exclude))
            IN IF ~res.ok THEN Response(500, res.db)
               ELSE IF \E r \in current(res.db.T) : r.id = pk
               THEN Response(200, res.db)
               ELSE Response(204, res.db)

\* POST <pk>/rollback/ with request.data = data
RollbackRequest(pk, data) ==
    /\ Apply(Fresh, [db |-> rollback_view(TheDb, pk, data).db, inst |-> Blank])
    /\ UNCHANGED <<clock, txn, race, ledger>>

\* creates, updates and rollback requests
NextApi ==
    \/ Tick
    \/ \E c \in C1Values : Create(Fresh, [c1 |-> c])
    \/ \E x \in FetchedEdited : Save(Fresh, x, NULL)
    \/ \E pk \in Ids : \E data \in Requests : RollbackRequest(pk, data)

SpecApi == Init /\ [][NextApi]_vars

\* ------------------------------------------- transaction based managers
\* TransactionBasedModelManagerMixin.transaction_attribute
transaction_attribute == "transaction_id"

\* the keyword the mixin adds to the call of super().create
AddedKeyword == "transaction_id"

\* what the caller passes under transaction_attribute: no such keyword, the
\* keyword with None, a transaction instance, or the pk of a transaction
Passed(l) ==
    {[kind |-> "absent", id |-> NULL], [kind |-> "none", id |-> NULL]}
       \cup {[kind |-> k, id |-> t.id] : k \in {"instance", "pk"}, t \in l.transactions}

\* the users a record can be modified by
Modifiers == 1..MaxId

\* kwargs of Model.objects.create(**kwargs)
KwArgs(l) == [modified_by : {NULL} \cup Modifiers, passed : Passed(l)]

\* transaction_class.objects.create(modified_by=user)
NewTransaction(l, user) ==
    [l EXCEPT !.transactions = @ \cup {[id |-> l.tid, modified_by |-> user]},
              !.tid = @ + 1]

\* super().create(**kwargs, transaction_id=id)
NewObject(l, user, id) ==
    [l EXCEPT !.objects = @ \cup {[id |-> l.oid, modified_by |-> user,
                                    transaction_id |-> id]},
              !.oid = @ + 1]

Done(l) == [ok |-> TRUE, err |-> "", l |-> l]
Raised(e, l) == [ok |-> FALSE, err |-> e, l |-> l]

\* TransactionBasedModelManagerMixin.create; it opens no transaction.atomic
\* block, so what is written before an exception stays written
create(l, kwargs) ==
    IF kwargs.modified_by = NULL
    THEN Raised("Exception", l)              \* modified_by must be specified
    ELSE LET fresh == kwargs.passed.kind \in {"absent", "none"}
             l1 == IF fresh THEN NewTransaction(l, kwargs.modified_by) ELSE l
             id == IF fresh THEN l.tid ELSE kwargs.passed.id
         IN IF kwargs.passed.kind = "pk"
            THEN Raised("AttributeError", l1)    \* transaction.id on an int
            ELSE IF kwargs.passed.kind # "absent"
                    /\ transaction_attribute = AddedKeyword
            THEN Raised("TypeError", l1)         \* keyword given twice
            ELSE Done(NewObject(l1, kwargs.modified_by, id))

\* Model.objects.create(**kwargs) through the mixin
ManagerCreate(kwargs) ==
    /\ ledger.tid <= MaxId /\ ledger.oid <= MaxId
    /\ ledger' = create(ledger, kwargs).l
    /\ UNCHANGED <<rows, frows, rrows, orows, nextId, handles, txn, race, clock>>

\* "create the transaction first": transaction_class.objects.create
TransactionCreate(user) ==
    /\ ledger.tid <= MaxId
    /\ ledger' = NewTransaction(ledger, user)
    /\ UNCHANGED <<rows, frows, rrows, orows, nextId, handles, txn, race, clock>>

NextLedger ==
    \/ \E user \in Modifiers : TransactionCreate(user)
    \/ \E kwargs \in KwArgs(ledger) : ManagerCreate(kwargs)

SpecLedger == Init /\ [][NextLedger]_vars

\* ------------------------------------------------------------------ claims
Group(S, g) == {r \in S : r.row_id = g}

\* C1: every row group has at most one version with replaced_at = null in
\* every committed state, and a successful save leaves exactly one current
\* row in its group, the one carrying the payload just saved
C1_AtMostOneCurrent ==
    /\ \A g \in Ids : Cardinality(current(Group(rows, g))) <= 1
    /\ \A k \in Callers(FetchedEdited) :
          LET res == save(TheDb, "T", k.self, NULL, clock)
          IN (k.self # Blank /\ res.ok) =>
                /\ current(Group(res.db.T, res.inst.row_id)) = {res.inst}
                /\ res.inst.c1 = k.self.c1

\* a group with two historical versions and one current version
C1_Witness ==
    \E g \in Ids :
        /\ Cardinality(Group(rows, g)) = 3
        /\ Cardinality(current(Group(rows, g))) = 1
        /\ \E r \in current(Group(rows, g)) : r.created_at = clock

\* C2: as long as a row group has a current version, no step changes the id
\* of that version: it stays the id the group was created with
C2_StableId ==
    [][\A g \in Ids :
          (current(Group(rows, g)) # {} /\ current(Group(rows', g)) # {})
             => /\ {r.id : r \in current(Group(rows', g))}
                     = {r.id : r \in current(Group(rows, g))}
                /\ \A r \in current(Group(rows', g)) : r.id = g]_vars

\* a group whose current version has been updated and then rolled back
C2_Witness ==
    \E r \in current(rows) : \E o \in Group(rows, r.row_id) :
        /\ r.id = r.row_id
        /\ o.id # r.id
        /\ nextId.T > Cardinality(rows) + 1
        /\ r.created_at < clock

VPay(S, g, t) == {Payload(r) : r \in Group(version(S, t), g)}

\* C4: under creates and updates, a write at time now leaves what
\* version_at(t) shows for every t < now as it was (nothing before the
\* creation), and makes version_at(t) show the written payload for t >= now;
\* version_at never shows two payloads of a group
C4_VersionAtReplaysHistory ==
    /\ \A g \in Ids, t \in Times : Cardinality(VPay(rows, g, t)) <= 1
    /\ \A self \in {k.self : k \in Callers(FetchedEdited)}
                      \cup {New([c1 |-> c]) : c \in C1Values} :
          LET res == save(TheDb, "T", self, NULL, clock)
              g == res.inst.row_id
          IN (self # Blank /\ res.ok) =>
               /\ \A o \in Ids, t \in Times :
                     t < clock => VPay(res.db.T, o, t) = VPay(rows, o, t)
               /\ \A t \in Times :
                     t >= clock => VPay(res.db.T, g, t) = {Payload(res.inst)}
               /\ self.id = NULL =>
                     \A t \in Times : t < clock => VPay(res.db.T, g, t) = {}

\* created after time 1, updated later with another payload: version_at
\* shows nothing, then the first payload, then the second
C4_Witness ==
    \E g \in Ids :
        /\ VPay(rows, g, 1) = {}
        /\ VPay(rows, g, 2) # {}
        /\ VPay(rows, g, 3) # {}
        /\ VPay(rows, g, 2) # VPay(rows, g, 3)

\* the payload a frozen reference resolves to
Resolved(S, x) == {Payload(t) : t \in {r \in S : r.id = x.frozen}}

\* C5: every frozen reference, held by a version of a versioned referencer
\* or by a plain one, resolves to the payload its target had when the
\* reference was formed, whatever updates the target has had since
C5_FrozenPayloadKeptByUpdate ==
    /\ \A x \in frows : Resolved(rows, x) = {x.snap}
    /\ \A x \in rrows : Resolved(rows, x) = {x.snap}

\* C6: a successful rollback of the target leaves the payload every
\* existing frozen reference resolves to as it was before the rollback
RefsKept(db0, db1) ==
    /\ \A x \in db0.F : \A y \in db1.F :
          y.id = x.id => Resolved(db1.T, y) = Resolved(db0.T, x)
    /\ \A x \in db0.R : \A y \in db1.R :
          y.id = x.id => Resolved(db1.T, y) = Resolved(db0.T, x)

C6_FrozenPayloadKeptByRollback ==
    \A x \in Fetched :
       /\ \A a \in {Everything, AllButC1} :
             LET res == rollback_latest(TheDb, "T", x, a.fields, a.exclude)
             IN res.ok => RefsKept(TheDb, res.db)
       /\ \A t \in Times : \A a \in {Everything, AllButC1} :
             LET res == rollback_to_at(TheDb, "T", x, t, a.fields, a.exclude)
             IN res.ok => RefsKept(TheDb, res.db)

\* instances a caller may hold: the long-lived one, or any stored version
Insts == {handles["h1"]} \cup rows

\* the latest of the other versions of the group of self
Others(S, self) == {r \in Group(S, self.row_id) : r.id # self.id}
Preceding(S, self) ==
    CHOOSE p \in Others(S, self) : \A o \in Others(S, self) :
        o.created_at <= p.created_at

\* C7: save on a version whose replaced_at is non-null, in the instance or
\* in the store, fails with an assertion error and writes nothing; an update
\* of the current version of the group at a later time still succeeds
C7_SaveOnReplacedFails ==
    \A self \in Insts :
       LET res == save(TheDb, "T", self, NULL, clock)
       IN (/\ self.id # NULL
           /\ \/ self.replaced_at # NULL
              \/ \E v \in rows : v.id = self.id /\ v.replaced_at # NULL) =>
            /\ ~res.ok
            /\ res.err = "AssertionError"
            /\ res.db = TheDb
            /\ \A cur \in current(Group(res.db.T, self.row_id)) :
               \A c \in C1Values :
                  cur.created_at < clock =>
                     save(res.db, "T", [cur EXCEPT !.c1 = c], NULL, clock).ok

\* the long-lived instance is a stored replaced version of a group that has
\* a current version written earlier, and its save is refused
C7_Witness ==
    /\ handles["h1"] \in rows
    /\ handles["h1"].replaced_at # NULL
    /\ \E cur \in current(Group(rows, handles["h1"].row_id)) :
          cur.created_at < clock
    /\ save(TheDb, "T", handles["h1"], NULL, clock).err = "AssertionError"

\* C8: no step changes a field of a stored version whose replaced_at is
\* non-null: the version stays as it is or is destroyed
C8_ReplacedImmutable ==
    [][\A r \in rows :
          r.replaced_at # NULL =>
             (r \in rows' \/ \A o \in rows' : o.id # r.id)]_vars

\* C9: a successful rollback_latest without fields/exclude on the stored
\* current version of a group that has earlier versions gives it the payload
\* of the latest of them, keeps its id, and leaves the group one version
\* smaller; called on a freshly fetched instance that is the newest version
\* of its group it succeeds
C9_RollbackLatestRestoresPrevious ==
    \A self \in Insts :
       LET res == rollback_latest(TheDb, "T", self, NoFields, {})
           g == self.row_id
       IN (/\ \E v \in current(rows) : v.id = self.id
           /\ Others(rows, self) # {}) =>
            /\ (/\ self \in rows
                /\ \A o \in Others(rows, self) :
                      o.created_at < self.created_at) => res.ok
            /\ res.ok =>
                 /\ res.inst.id = self.id
                 /\ res.inst \in res.db.T
                 /\ Payload(res.inst) = Payload(Preceding(rows, self))
                 /\ Cardinality(Group(res.db.T, g))
                       = Cardinality(Group(rows, g)) - 1

\* a current version edited twice can be rolled back to the second payload
C9_Witness ==
    \E self \in current(rows) :
       /\ Cardinality(Others(rows, self)) = 2
       /\ Preceding(rows, self).c1 # self.c1
       /\ rollback_latest(TheDb, "T", self, NoFields, {}).ok

\* the group of self after a rollback to target that left the instance v
RolledBackTo(db1, self, target, v) ==
    /\ Group(db1.T, self.row_id)
          = {r \in Group(rows, self.row_id) :
                r.created_at < target.created_at /\ r.id # self.id} \cup {v}
    /\ v.id = self.id
    /\ v.created_at = target.created_at
    /\ v.replaced_at = NULL

\* the version rollback_to_at(time) selects
AtOrBefore(S, self, time) == {r \in Group(S, self.row_id) : r.created_at <= time}
TargetAt(S, self, time) ==
    CHOOSE p \in AtOrBefore(S, self, time) : \A o \in AtOrBefore(S, self, time) :
        o.created_at <= p.created_at

\* C10: after a successful rollback to a target, by rollback_latest or
\* rollback_to_at with any fields/exclude, the group holds exactly the
\* versions created before the target plus the current version v, which has
\* created_at = target.created_at and replaced_at = null
C10_RollbackDestroysLaterVersions ==
    \A self \in Insts : \A a \in {Everything, AllButC1} :
       /\ LET res == rollback_latest(TheDb, "T", self, a.fields, a.exclude)
          IN (self.id # NULL /\ Others(rows, self) # {} /\ res.ok) =>
                RolledBackTo(res.db, self, Preceding(rows, self), res.inst)
       /\ \A t \in Times :
            LET res == rollback_to_at(TheDb, "T", self, t, a.fields, a.exclude)
            IN (/\ self.id # NULL
                /\ AtOrBefore(rows, self, t) # {}
                /\ TargetAt(rows, self, t).id # self.id
                /\ res.ok) =>
                  RolledBackTo(res.db, self, TargetAt(rows, self, t), res.inst)

\* a rollback_to_at that skips over a version in between succeeds
C10_Witness ==
    \E self \in current(rows) : \E t \in Times :
       /\ Cardinality(Others(rows, self)) = 2
       /\ AtOrBefore(rows, self, t) # {}
       /\ \E o \in Others(rows, self) :
             o.created_at > TargetAt(rows, self, t).created_at
       /\ rollback_to_at(TheDb, "T", self, t, NoFields, {}).ok

\* self is a stored version newer than every other version of its group
Newest(S, self) ==
    /\ self \in S
    /\ \A o \in Others(S, self) : o.created_at < self.created_at

\* C11: rollback_to_at(time), when the latest version of the group created
\* at or before time is the instance's own version, leaves every table as
\* it was, whatever fields/exclude say; on a freshly fetched current
\* version that is the newest of its group it returns without error
C11_RollbackToSelfIsNoOp ==
    \A self \in Insts : \A t \in Times : \A a \in {Everything, AllButC1} :
       LET res == rollback_to_at(TheDb, "T", self, t, a.fields, a.exclude)
       IN (/\ self.id # NULL
           /\ AtOrBefore(rows, self, t) # {}
           /\ TargetAt(rows, self, t).id = self.id) =>
            /\ res.db = TheDb
            /\ (Newest(rows, self) /\ self.replaced_at = NULL) =>
                  (res.ok /\ res.inst = self)

\* a current version with history, asked to roll back to a time at or after
\* its own creation
C11_Witness ==
    \E self \in current(rows) : \E t \in Times :
       /\ Others(rows, self) # {}
       /\ Newest(rows, self)
       /\ t >= self.created_at
       /\ TargetAt(rows, self, t).id = self.id
       /\ rollback_to_at(TheDb, "T", self, t, NoFields, {}).ok

\* C12: rollback_to_at(time) with time earlier than the created_at of every
\* version of the group, called on the newest stored version of a group no
\* frozen reference targets, succeeds and leaves no version of the group;
\* on any instance, if it succeeds the group is empty afterwards
C12_RollbackBeforeCreationPurges ==
    \A self \in Insts : \A t \in Times : \A a \in {Everything, AllButC1} :
       LET res == rollback_to_at(TheDb, "T", self, t, a.fields, a.exclude)
           g == self.row_id
       IN (/\ self.id # NULL
           /\ Group(rows, g) # {}
           /\ \A r \in Group(rows, g) : r.created_at > t) =>
            /\ Newest(rows, self) => res.ok
            /\ res.ok => Group(res.db.T, g) = {}

\* a group with history, all of it created after time 1
C12_Witness ==
    \E self \in current(rows) :
       /\ Others(rows, self) # {}
       /\ \A r \in Group(rows, self.row_id) : r.created_at > 1
       /\ rollback_to_at(TheDb, "T", self, 1, NoFields, {}).ok
       /\ Group(rollback_to_at(TheDb, "T", self, 1, NoFields, {}).db.T,
                self.row_id) = {}

\* C13: rollback_latest on a stored current version that is the only
\* version of its group succeeds, destroys it and leaves the group empty;
\* every other row is left as it was
C13_RollbackFirstVersionDestroys ==
    \A self \in Insts : \A a \in {Everything, AllButC1} :
       LET res == rollback_latest(TheDb, "T", self, a.fields, a.exclude)
       IN (/\ \E v \in current(rows) : v.id = self.id
           /\ Others(rows, self) = {}) =>
            /\ res.ok
            /\ Group(res.db.T, self.row_id) = {}
            /\ res.db.T = {r \in rows : r.id # self.id}

\* a single-version group next to another group
C13_Witness ==
    \E self \in current(rows) : \E o \in rows :
       /\ Others(rows, self) = {}
       /\ o.row_id # self.row_id
       /\ self.created_at < clock
       /\ rollback_latest(TheDb, "T", self, NoFields, {}).ok

\* C14: rollback_latest and rollback_to_at on a stored version whose
\* replaced_at is non-null (historical or soft-deleted) fail with an error
\* and leave the store unchanged
C14_RollbackOnReplacedFails ==
    \A self \in rows : \A a \in {Everything, AllButC1} :
       self.replaced_at # NULL =>
          /\ LET res == rollback_latest(TheDb, "T", self, a.fields, a.exclude)
             IN ~res.ok /\ res.db = TheDb
          /\ \A t \in Times :
               LET res == rollback_to_at(TheDb, "T", self, t, a.fields, a.exclude)
               IN ~res.ok /\ res.db = TheDb

\* the versions of every group other than g
Rest(S, g) == {r \in S : r.row_id # g}

\* C16: a successful purge leaves no version with the row_id of the
\* instance and leaves the versions of every other group as they were; on
\* a stored version of a group no frozen reference targets it succeeds
C16_PurgeEmptiesOnlyItsGroup ==
    \A self \in Insts :
       LET res == purge(TheDb, "T", self)
           g == self.row_id
       IN self.id # NULL =>
            /\ self \in rows => res.ok
            /\ res.ok => /\ Group(res.db.T, g) = {}
                         /\ Rest(res.db.T, g) = Rest(rows, g)
                         /\ res.db.T \subseteq rows

\* a group of two versions next to another group
C16_Witness ==
    \E self \in current(rows) : \E o \in rows :
       /\ Cardinality(Group(rows, self.row_id)) = 2
       /\ o.row_id # self.row_id
       /\ purge(TheDb, "T", self).ok
       /\ purge(TheDb, "T", self).db.T = Rest(rows, self.row_id)

\* C17: rollback_latest and rollback_to_at, whatever their outcome, leave
\* the versions of every group other than the instance's as they were
C17_RollbackLeavesOtherGroups ==
    \A self \in Insts : \A a \in {Everything, AllButC1} :
       self # Blank =>
         /\ LET res == rollback_latest(TheDb, "T", self, a.fields, a.exclude)
            IN Rest(res.db.T, self.row_id) = Rest(rows, self.row_id)
         /\ \A t \in Times :
              LET res == rollback_to_at(TheDb, "T", self, t, a.fields, a.exclude)
              IN Rest(res.db.T, self.row_id) = Rest(rows, self.row_id)

\* a rollback succeeds while another group has a version created at or
\* after the rollback point
C17_Witness ==
    \E self \in current(rows) : \E o \in rows :
       /\ Others(rows, self) # {}
       /\ o.row_id # self.row_id
       /\ o.created_at >= Preceding(rows, self).created_at
       /\ rollback_latest(TheDb, "T", self, NoFields, {}).ok

\* C20: version_at(at) over the full history is exactly the set of stored
\* versions with created_at <= at and (replaced_at null or replaced_at > at)
C20_VersionAtWindow ==
    \A t \in Times :
       \A r \in rows :
          r \in version(rows, t) <=>
             /\ r.created_at <= t
             /\ r.replaced_at = NULL \/ r.replaced_at > t

\* at one instant a version is created and another has been replaced: the
\* first is shown, the second is not
C20_Witness ==
    \E t \in Times : \E a \in rows : \E b \in rows :
       /\ a.created_at = t
       /\ a \in version(rows, t)
       /\ b.replaced_at = t
       /\ b.created_at < t
       /\ b \notin version(rows, t)
       /\ \E c \in rows : c.replaced_at # NULL /\ c \in version(rows, t)

\* the payload a rollback of self to target under (fields, exclude) must
\* leave: target's value for a field selected by fields (or with fields
\* absent) and not named in exclude, the instance's own value otherwise
ExpectedPayload(self, target, a) ==
    [f \in PayloadFields |->
        IF (~a.fields.given \/ f \in a.fields.names) /\ f \notin a.exclude
        THEN target[f] ELSE self[f]]

\* C15: after a successful rollback of a freshly fetched current version
\* under any fields/exclude, each payload field of the stored current
\* version has the target's value iff it is selected by fields (or fields is
\* absent) and not excluded, and otherwise the value it had before
C15_FieldsAndExclude ==
    \A self \in Fetched : \A a \in FieldOptions :
       /\ LET res == rollback_latest(TheDb, "T", self, a.fields, a.exclude)
          IN (Others(rows, self) # {} /\ res.ok) =>
               /\ res.inst \in res.db.T
               /\ \A f \in PayloadFields :
                     res.inst[f] = ExpectedPayload(self, Preceding(rows, self), a)[f]
       /\ \A t \in Times :
            LET res == rollback_to_at(TheDb, "T", self, t, a.fields, a.exclude)
            IN (/\ AtOrBefore(rows, self, t) # {}
                /\ TargetAt(rows, self, t).id # self.id
                /\ res.ok) =>
                  /\ res.inst \in res.db.T
                  /\ \A f \in PayloadFields :
                        res.inst[f] = ExpectedPayload(self, TargetAt(rows, self, t), a)[f]

\* the current version differs from the previous one in c1 and in end_at,
\* and a rollback with fields = {c1, end_at}, exclude = {c1} reverts end_at
\* and keeps c1
C15_Witness ==
    \E self \in Fetched :
       LET res == rollback_latest(TheDb, "T", self,
                                  Given({"c1", "end_at"}), {"c1"})
       IN /\ Others(rows, self) # {}
          /\ Preceding(rows, self).c1 # self.c1
          /\ Preceding(rows, self).end_at # self.end_at
          /\ res.ok
          /\ res.inst.c1 = self.c1
          /\ res.inst.end_at = Preceding(rows, self).end_at

\* C19: a create succeeds and adds exactly one row, with a fresh id,
\* replaced_at = null, created_at = the creation time and row_id = its own
\* id whatever the caller supplied for them; start_at is the supplied value,
\* or created_at when none was supplied; end_at and modified_by are stored
\* as supplied
C19_CreateStampsSystemFields ==
    \A kw \in CreateInputs :
       LET res == save(TheDb, "T", New(kw), NULL, clock)
           v == res.inst
       IN /\ res.ok
          /\ res.db.T = rows \cup {v}
          /\ v.id \notin {r.id : r \in rows}
          /\ v.replaced_at = NULL
          /\ v.created_at = clock
          /\ v.row_id = v.id
          /\ v.start_at = IF kw.start_at # NULL THEN kw.start_at ELSE clock
          /\ v.end_at = kw.end_at
          /\ v.modified_by = kw.modified_by
          /\ v.c1 = kw.c1

\* stored first versions created after time 1: one with supplied start_at,
\* end_at and modified_by, one with start_at defaulted
C19_Witness ==
    /\ \E v \in current(rows) :
          /\ v.created_at > 1
          /\ v.row_id = v.id
          /\ v.start_at = 1
          /\ v.end_at # NULL
          /\ v.modified_by # NULL
          /\ Others(rows, v) = {}
    /\ \E v \in current(rows) :
          /\ v.created_at > 1
          /\ v.start_at = v.created_at
          /\ Others(rows, v) = {}

\* C18: a successful soft delete through an instance of the stored current
\* version v changes only v's replaced_at, to the deletion time: every
\* other stored field keeps its stored value, no row is added or removed,
\* the group has no current version afterwards and the row is still stored
C18_SoftDeleteChangesOnlyReplacedAt ==
    \A k \in Callers(Fetched) : \A v \in current(rows) :
       LET res == delete(TheDb, "T", k.self, clock)
       IN (k.self.id = v.id /\ res.ok) =>
            /\ res.db.T = (rows \ {v}) \cup {[v EXCEPT !.replaced_at = clock]}
            /\ current(Group(res.db.T, v.row_id)) = {}

\* instants a query may ask about: before, at and after every clock reading
QueryTimes == 0..(MaxTime + 1)

\* C21: for every instant `at`, active(at) of Model.records and of
\* Model.objects both return exactly the stored versions with
\* replaced_at = null, start_at <= at and (end_at = null or end_at > at)
C21_ActiveIsCurrentAndValid ==
    \A at \in QueryTimes :
       LET expected == {r \in rows : /\ r.replaced_at = NULL
                                     /\ r.start_at <= at
                                     /\ (r.end_at = NULL \/ r.end_at > at)}
       IN /\ records_active(rows, at) = expected
          /\ objects_active(rows, at) = expected

\* a current version is shown at the instant it starts, a current version is
\* hidden at the instant it ends though shown just before, and a replaced
\* version whose validity covers the instant is hidden
C21_Witness ==
    /\ \E r \in rows : r.start_at > 1 /\ r \in records_active(rows, r.start_at)
                                      /\ r \notin records_active(rows, r.start_at - 1)
    /\ \E r \in current(rows) :
          /\ r.end_at # NULL
          /\ r \notin objects_active(rows, r.end_at)
          /\ r \in objects_active(rows, r.end_at - 1)
    /\ \E r \in rows : \E at \in QueryTimes :
          /\ r.replaced_at # NULL
          /\ r \in active(rows, at)
          /\ r \notin records_active(rows, at)

\* C22: active and version_at given a pure date d compare against the last
\* instant of d.  version_at(d) shows exactly the versions created on d or
\* earlier and not replaced on d or earlier; active(d) shows exactly the
\* versions started on d or earlier and not ended on d or earlier.  So a
\* version created on d and not replaced that day is shown, and one replaced
\* or ended at any instant of d is hidden.
C22_DateMeansEndOfDay ==
    \A d \in Days :
       /\ version_date(rows, d) =
             {r \in rows : /\ DayOf(r.created_at) <= d
                           /\ (r.replaced_at = NULL \/ DayOf(r.replaced_at) > d)}
       /\ active_date(rows, d) =
             {r \in rows : /\ DayOf(r.start_at) <= d
                           /\ (r.end_at = NULL \/ DayOf(r.end_at) > d)}
       /\ \A r \in rows :
             /\ (r.replaced_at # NULL /\ DayOf(r.replaced_at) = d)
                   => r \notin version_date(rows, d)
             /\ (r.end_at # NULL /\ DayOf(r.end_at) = d)
                   => r \notin active_date(rows, d)
             /\ (DayOf(r.created_at) = d /\ r.replaced_at = NULL)
                   => r \in version_date(rows, d)

\* a version created at the last instant of a day is shown by that date
\* though hidden at the first instant of the day; a version replaced at the
\* last instant of a day is hidden by that date though shown at the first
\* instant of the day; a version ending on a day is hidden by that date and
\* shown by the date of the day before
C22_Witness ==
    /\ \E r \in current(rows) : \E d \in Days :
          /\ DayOf(r.created_at) = d
          /\ r \in version_date(rows, d)
          /\ r \notin version(rows, d * TicksPerDay)
    /\ \E r \in rows : \E d \in Days :
          /\ r.replaced_at # NULL
          /\ DayOf(r.replaced_at) = d
          /\ r \notin version_date(rows, d)
          /\ r \in version(rows, d * TicksPerDay)
    /\ \E r \in rows : \E d \in Days :
          /\ r.end_at # NULL
          /\ DayOf(r.end_at) = d
          /\ r \notin active_date(rows, d)
          /\ r \in active_date(rows, d - 1)

\* C23: an update, at a later instant, of a stored current version that
\* holds a one-to-one partner p and leaves the partner alone succeeds; the
\* historical clone it adds has the field null and the current version
\* still holds p; and in every committed state no two stored versions hold
\* the same one-to-one partner
C23_CloneDropsOneToOne ==
    /\ UniqueOneToOne(orows)
    /\ \A x \in FetchedO : \A c \in {"A", "A2"} :
          LET res == save(TheDb, "O", [x EXCEPT !.c1 = c], NULL, clock)
              added == res.db.O \ orows
          IN (x.one_to_one # NULL /\ clock > x.created_at) =>
               /\ res.ok
               /\ \E cl \in added :
                     /\ cl.id # x.id
                     /\ cl.row_id = x.row_id
                     /\ cl.replaced_at = clock
                     /\ cl.c1 = x.c1
                     /\ cl.one_to_one = NULL
               /\ \E v \in current(res.db.O) :
                     v.id = x.id /\ v.one_to_one = x.one_to_one /\ v.c1 = c
               /\ UniqueOneToOne(res.db.O)

\* a stored current version holding a partner next to its historical clone,
\* which holds none, while a second group holds another partner
C23_Witness ==
    \E v \in current(orows) : \E h \in Others(orows, v) : \E o \in current(orows) :
       /\ v.one_to_one # NULL
       /\ h.replaced_at # NULL
       /\ h.one_to_one = NULL
       /\ h.c1 # v.c1
       /\ o.row_id # v.row_id
       /\ o.one_to_one \notin {NULL, v.one_to_one}

\* C24: a successful rollback_latest or rollback_to_at on a fetched current
\* version leaves its one-to-one field as it was right before the call, in
\* the instance and in the stored row, whatever fields and exclude say
C24_RollbackKeepsOneToOne ==
    \A x \in FetchedO : \A a \in OneOptions :
       /\ LET res == rollback_latest(TheDb, "O", x, a.fields, a.exclude)
          IN res.ok =>
               /\ res.inst.one_to_one = x.one_to_one
               /\ \A r \in res.db.O : r.id = x.id => r.one_to_one = x.one_to_one
       /\ \A t \in Times :
             LET res == rollback_to_at(TheDb, "O", x, t, a.fields, a.exclude)
             IN res.ok =>
                  /\ res.inst.one_to_one = x.one_to_one
                  /\ \A r \in res.db.O : r.id = x.id => r.one_to_one = x.one_to_one

\* a current version holding a partner whose preceding version holds none
\* and another c1: rollback_latest naming the one-to-one field succeeds,
\* reverts c1 and keeps the version stored with its partner
C24_Witness ==
    \E x \in FetchedO :
       LET res == rollback_latest(TheDb, "O", x, Given({"c1", "one_to_one"}), {})
       IN /\ Others(orows, x) # {}
          /\ x.one_to_one # NULL
          /\ Preceding(orows, x).one_to_one = NULL
          /\ Preceding(orows, x).c1 # x.c1
          /\ res.ok
          /\ res.inst.c1 = Preceding(orows, x).c1
          /\ \E r \in current(res.db.O) :
                r.id = x.id /\ r.one_to_one = x.one_to_one

\* C25: in every committed state no two versions of a row group share a
\* created_at; an update of a fetched current version, whatever the clock
\* reads, either is rejected as a whole (nothing written) or leaves the
\* current version with a created_at strictly greater than that of every
\* other version of its group
C25_CreatedAtStrictlyIncreasing ==
    /\ UniqueTogether(rows)
    /\ \A x \in FetchedEdited :
          LET res == save(TheDb, "T", x, NULL, clock)
          IN IF res.ok
             THEN \A o \in Others(res.db.T, res.inst) :
                     o.created_at < res.inst.created_at
             ELSE res.db = TheDb

\* the working copy of the transaction in flight
Working == IF txn.pos = 0 THEN TheDb ELSE txn.stages[txn.pos]

\* C26: create, update, rollback_latest, rollback_to_at and purge are
\* atomic.  While one of them is in flight the committed store does not
\* change, whatever the working copy holds; when it ends the store becomes
\* the complete outcome of the operation, which is the state reached after
\* its last statement, or stays as it was when the operation failed or was
\* rejected at commit; and no committed state holds two current versions of
\* a group or two versions of a group with one created_at
C26_OperationsAreAtomic ==
    /\ [](/\ UniqueTogether(rows)
          /\ \A a \in current(rows) : \A b \in current(rows) :
                a.row_id = b.row_id => a.id = b.id
          /\ (txn.active /\ txn.res.ok) =>
                (txn.stages # <<>> => txn.stages[Len(txn.stages)] = txn.res.db))
    /\ [][txn.active =>
            \/ TheDb' = TheDb
            \/ /\ ~txn'.active
               /\ txn.pos = Len(txn.stages)
               /\ txn.res.ok
               /\ TheDb' = txn.res.db]_vars

\* part-way through an update the working copy holds the clone next to the
\* stored row, both current, and part-way through a rollback it holds frozen
\* references moved with no version destroyed yet, while the committed
\* store still shows the state before the operation
C26_Witness ==
    /\ txn.active
    /\ txn.pos >= 1
    /\ txn.pos < Len(txn.stages)
    /\ Working # TheDb
    /\ \/ \E a \in current(Working.T) : \E b \in current(Working.T) :
             a.row_id = b.row_id /\ a.id # b.id
       \/ Working.R # rrows /\ Working.T = rows

\* C27: every stored version has end_at = null or end_at > start_at, that
\* is, no create or update of a version on which clean() raises its
\* validation error is ever committed
C27_EndAfterStart == \A r \in rows : ~clean(r)

\* row_id is assigned on every stored version of S, and the current
\* version of a group, when there is one, has the group's row_id as its id
GroupedByCurrent(S) ==
    \A r \in S :
       /\ r.row_id # NULL
       /\ \A c \in current(Group(S, r.row_id)) : c.id = r.row_id

\* C28: in every committed state, every stored version of the target and
\* of the versioned referencer carries a row_id, equal to the id of the
\* current version of its group; and no step (update, soft delete,
\* rollback, purge, frozen-reference repointing) changes the row_id of a
\* version that stays stored
C28_RowIdImmutable ==
    /\ [](GroupedByCurrent(rows) /\ GroupedByCurrent(frows))
    /\ [][/\ \A r \in rows : \A q \in rows' : q.id = r.id => q.row_id = r.row_id
          /\ \A r \in frows : \A q \in frows' :
                q.id = r.id => q.row_id = r.row_id]_vars

\* a current target version with a historical version of its group that a
\* repointed plain reference targets, a versioned referencer with a
\* historical version, and a soft-deleted target group
C28_Witness ==
    /\ \E v \in current(rows) : \E h \in Others(rows, v) : \E x \in rrows :
          h.row_id = v.id /\ x.frozen = h.id
    /\ \E d \in rows : d.replaced_at # NULL /\ d.row_id = d.id
    /\ \E f \in frows : f.replaced_at # NULL /\ f.row_id # f.id

\* the row groups with a stored version
GroupIds(S) == {r.row_id : r \in S}

C30_EveryReferenceRepointed ==
    \A x \in FetchedEdited :
       LET res == save(TheDb, "T", x, NULL, clock)
       IN res.ok =>
            /\ \A f \in res.db.F : f.frozen # x.id
            /\ \A r \in res.db.R : r.frozen # x.id

\* a referencing row without its frozen reference
Unpointed(x) == [x EXCEPT !.frozen = NULL]

\* db1 holds the referencing rows of the store, the same rows with the same
\* ids, changed in nothing but their frozen reference
OnlyRepointed(db1) ==
    /\ {Unpointed(x) : x \in db1.F} = {Unpointed(x) : x \in frows}
    /\ {Unpointed(x) : x \in db1.R} = {Unpointed(x) : x \in rrows}
    /\ Cardinality(db1.F) = Cardinality(frows)
    /\ Cardinality(db1.R) = Cardinality(rrows)

\* C31: a successful update, rollback_latest or rollback_to_at of a target
\* leaves every referencing row stored under its id, with its row_id,
\* created_at, replaced_at and every other field but the frozen reference
\* unchanged, and adds no referencing row
C31_RepointingWritesInPlace ==
    /\ \A x \in FetchedEdited :
          LET res == save(TheDb, "T", x, NULL, clock)
          IN res.ok => OnlyRepointed(res.db)
    /\ \A x \in Fetched : \A a \in {Everything, AllButC1} :
          /\ LET res == rollback_latest(TheDb, "T", x, a.fields, a.exclude)
             IN res.ok => OnlyRepointed(res.db)
          /\ \A t \in Times :
                LET res == rollback_to_at(TheDb, "T", x, t, a.fields, a.exclude)
                IN res.ok => OnlyRepointed(res.db)

\* a target whose update repoints a versioned referencer and whose rollback
\* repoints a plain referencer
C31_Witness ==
    \E x \in Fetched :
       LET up == save(TheDb, "T", [x EXCEPT !.c1 = "second"], NULL, clock)
           rb == rollback_latest(TheDb, "T", x, NoFields, {})
       IN /\ up.ok
          /\ up.db.F # frows
          /\ rb.ok
          /\ rb.db.R # rrows

\* every frozen reference of db targets a stored version of the target
NoDangling(db) ==
    /\ \A f \in db.F : \E t \in db.T : t.id = f.frozen
    /\ \A r \in db.R : \E t \in db.T : t.id = r.frozen

\* C32: in every committed state every frozen reference targets a stored
\* version; an update, rollback_latest, rollback_to_at or purge of a fetched
\* target leaves it so when it succeeds and leaves the store unchanged when
\* it fails
C32_NoDanglingReference ==
    /\ NoDangling(TheDb)
    /\ \A x \in FetchedEdited :
          LET res == save(TheDb, "T", x, NULL, clock)
          IN IF res.ok THEN NoDangling(res.db) ELSE res.db = TheDb
    /\ \A x \in Fetched :
          /\ LET res == purge(TheDb, "T", x)
             IN IF res.ok THEN NoDangling(res.db) ELSE res.db = TheDb
          /\ \A a \in {Everything, AllButC1} :
                /\ LET res == rollback_latest(TheDb, "T", x, a.fields, a.exclude)
                   IN IF res.ok THEN NoDangling(res.db) ELSE res.db = TheDb
                /\ \A t \in Times :
                      LET res == rollback_to_at(TheDb, "T", x, t, a.fields, a.exclude)
                      IN IF res.ok THEN NoDangling(res.db) ELSE res.db = TheDb

\* a target whose purge is refused because a historical version is still
\* referenced, and whose rollback destroys that version after repointing
\* the reference
C32_Witness ==
    \E x \in Fetched : \E h \in Others(rows, x) : \E r \in rrows :
       LET pg == purge(TheDb, "T", x)
           rb == rollback_latest(TheDb, "T", x, NoFields, {})
       IN /\ r.frozen = h.id
          /\ ~pg.ok
          /\ pg.err = "ProtectedError"
          /\ rb.ok
          /\ h.id \notin {t.id : t \in rb.db.T}
          /\ \E q \in rb.db.R : q.id = r.id /\ q.frozen = x.id

\* the versions of the group of r created after r
Later(S, r) == {o \in Group(S, r.row_id) : o.created_at > r.created_at}

\* the earliest of a non-empty set of versions
Earliest(S) == CHOOSE r \in S : \A o \in S : r.created_at <= o.created_at

\* C33: in every committed state the versions of a row group have distinct
\* created_at, and every version but the last created has replaced_at equal
\* to the created_at of the next one (so only the last may have
\* replaced_at = null)
C33_ContiguousWindows ==
    /\ UniqueTogether(rows)
    /\ \A r \in rows :
          Later(rows, r) # {} =>
             r.replaced_at = Earliest(Later(rows, r)).created_at

\* C34: in every committed state, for every row group and every instant t,
\* version_at(t) returns at most one version of the group
C34_VersionAtIsUnique ==
    \A t \in QueryTimes : \A g \in GroupIds(rows) :
       Cardinality(Group(version(rows, t), g)) <= 1

\* references of db targeting identifier id, by referencing row
Targeting(db, id) ==
    [F |-> {f.id : f \in {y \in db.F : y.frozen = id}},
     R |-> {r.id : r \in {y \in db.R : y.frozen = id}}]

\* C35: an update of a fetched current version x, when it succeeds,
\* followed at once by rollback_latest() on the same instance: the rollback
\* succeeds, the group has as many versions as before the update, the
\* current version has x's id, payload and created_at, and the frozen
\* references that targeted x's id before the update target it again
C35_UpdateThenRollbackRestores ==
    \A x \in Fetched : \A c \in C1Values :
       LET up == save(TheDb, "T", [x EXCEPT !.c1 = c], NULL, clock)
           rb == rollback_latest(up.db, "T", up.inst, NoFields, {})
       IN up.ok =>
            /\ rb.ok
            /\ Cardinality(Group(rb.db.T, x.row_id))
                  = Cardinality(Group(rows, x.row_id))
            /\ \E v \in current(rb.db.T) :
                  /\ v.id = x.id
                  /\ Payload(v) = Payload(x)
                  /\ v.created_at = x.created_at
            /\ Targeting(rb.db, x.id) = Targeting(TheDb, x.id)

\* C36: a successful rollback_to_at(T) without fields/exclude on a fetched
\* current version whose group has a version created at or before T: for
\* every instant t <= T, version_at(t) returns for the group the payload it
\* returned before, and for every t >= T it returns the payload that
\* version_at(T) returned before
C36_RollbackToAtKeepsEarlierHistory ==
    \A x \in Fetched : \A T \in Times :
       LET res == rollback_to_at(TheDb, "T", x, T, NoFields, {})
           g == x.row_id
       IN (res.ok /\ AtOrBefore(rows, x, T) # {}) =>
            \A t \in QueryTimes :
               /\ t <= T => VPay(res.db.T, g, t) = VPay(rows, g, t)
               /\ t >= T => VPay(res.db.T, g, t) = VPay(rows, g, T)

\* at most one current version per group and no two versions of a group
\* with the same created_at
OneCurrentDistinctCreation(S) ==
    \A g \in GroupIds(S) :
       /\ Cardinality(current(Group(S, g))) <= 1
       /\ \A a \in Group(S, g) : \A b \in Group(S, g) :
             a.id # b.id => a.created_at # b.created_at

\* C37: with the read-current, write-clone and write-current steps of two
\* updates interleaved in any way, every committed state has at most one
\* current version per group and no two versions of a group with the same
\* created_at; and a commit step whose writes would break this leaves the
\* committed rows as they were and the update aborted
C37_ConcurrentUpdatesKeepInvariants ==
    /\ []OneCurrentDistinctCreation(rows)
    /\ [][\A w \in Writers :
            (race[w].pc = "commit" /\ race'[w].pc = "idle") =>
               IF OneCurrentDistinctCreation(Overlay(rows, race[w].ws))
               THEN race'[w].outcome = "committed"
                    /\ rows' = Overlay(rows, race[w].ws)
               ELSE race'[w].outcome = "aborted" /\ rows' = rows]_vars

\* both writers have read the same current version and written their clone
\* and their current row, neither has committed: the two clones carry the
\* same row_id and created_at, so the later commit breaks the constraint
C37_Witness ==
    /\ race["w1"].pc = "commit" /\ race["w2"].pc = "commit"
    /\ race["w1"].self.id = race["w2"].self.id
    /\ \E a \in race["w1"].ws : \E b \in race["w2"].ws :
          /\ a.id # b.id
          /\ a.row_id = b.row_id
          /\ a.created_at = b.created_at
          /\ a.replaced_at # NULL /\ b.replaced_at # NULL

\* C38: after purge() of a fetched current version x has succeeded, no
\* save, soft delete, rollback_latest, rollback_to_at or purge called on an
\* instance h of a version of x's group that was loaded before the purge
\* makes a version with that row_id stored again
C38_PurgeIsIrreversible ==
    \A x \in Fetched : \A h \in Group(rows, x.row_id) :
       LET p == purge(TheDb, "T", x)
           g == x.row_id
       IN p.ok =>
            /\ \A c \in C1Values :
                  Group(save(p.db, "T", [h EXCEPT !.c1 = c], NULL, clock).db.T, g) = {}
            /\ Group(delete(p.db, "T", h, clock).db.T, g) = {}
            /\ Group(rollback_latest(p.db, "T", h, NoFields, {}).db.T, g) = {}
            /\ \A t \in Times :
                  Group(rollback_to_at(p.db, "T", h, t, NoFields, {}).db.T, g) = {}
            /\ Group(purge(p.db, "T", h).db.T, g) = {}

\* C39: a rollback request whose fields or exclude is supplied without being
\* iterable is answered with status 400 and leaves every table as it was
C39_NonIterableIsRejected ==
    \A pk \in Ids : \A data \in Requests :
       (data.fields = Scalar \/ data.exclude = Scalar) =>
          LET resp == rollback_view(TheDb, pk, data)
          IN /\ resp.status = 400
             /\ resp.db = TheDb

\* a current version with history: the same request with fields left out
\* rolls the group back, with a number as fields it is rejected
C39_Witness ==
    \E x \in Fetched : \E data \in Requests :
       /\ Others(rows, x) # {}
       /\ data.fields = Scalar
       /\ data.exclude = Absent
       /\ rollback_view(TheDb, x.id, data).status = 400
       /\ rollback_view(TheDb, x.id, [data EXCEPT !.fields = Absent]).status = 200
       /\ rollback_view(TheDb, x.id, [data EXCEPT !.fields = Absent]).db.T # rows

\* C40: create() called with modified_by and a stored transaction passed
\* under the transaction attribute (as an instance or as its pk) succeeds,
\* adds one object linked to that transaction and no transaction record;
\* called with modified_by and nothing under the attribute it succeeds and
\* adds exactly one transaction record, to which the new object is linked;
\* called without modified_by it fails and writes nothing
C40_CreateSharesTransactions ==
    \A kwargs \in KwArgs(ledger) :
       LET res == create(ledger, kwargs)
           added == res.l.objects \ ledger.objects
           opened == res.l.transactions \ ledger.transactions
       IN /\ kwargs.modified_by = NULL => (~res.ok /\ res.l = ledger)
          /\ (kwargs.modified_by # NULL /\ kwargs.passed.kind = "absent") =>
                /\ res.ok
                /\ Cardinality(opened) = 1
                /\ Cardinality(added) = 1
                /\ \A o \in added : \A t \in opened : o.transaction_id = t.id
          /\ (kwargs.modified_by # NULL
                 /\ kwargs.passed.kind \in {"instance", "pk"}) =>
                /\ res.ok
                /\ opened = {}
                /\ Cardinality(added) = 1
                /\ \A o \in added : o.transaction_id = kwargs.passed.id

====
